---- MODULE Spec2Model ----
(***************************************************************************)
(* Model of the proposal generator (src/app.py): the module store          *)
(* (upload, list_modules), the cover generator (timestamped name, title    *)
(* word wrap) and the export merger.                                       *)
(*                                                                         *)
(* File names and titles are sequences of one-character strings, so that   *)
(* lower(), endswith(), secure_filename(), splitext(), str.split() and     *)
(* sorted() are computed character by character.  A file's content is a    *)
(* sequence of chunks; a chunk is a page object, readable or not.          *)
(***************************************************************************)
EXTENDS Integers, Sequences, FiniteSets, TLC

VARIABLES modules, covers, exports, now, calls, last, threads

vars == <<modules, covers, exports, now, calls, last, threads>>

(***************************************************************************)
(* Characters                                                              *)
(***************************************************************************)

\* The characters used by the model, in ascending code point order.
AsciiOrder ==
    << " ", "#", "-", ".", "/", "0", "1", "2", "3", "4", "5", "6", "7", "8", "9",
       "B", "D", "F", "P", "W", "_", "a", "b", "c", "d", "e", "f", "i", "l", "n",
       "o", "p", "r", "s", "t", "v", "x" >>

OrdTable ==
    [c \in {AsciiOrder[i] : i \in 1..Len(AsciiOrder)} |->
        CHOOSE i \in 1..Len(AsciiOrder) : AsciiOrder[i] = c]

\* ord(c), up to the gaps between the characters of the model
Ord(c) == OrdTable[c]

Digits == <<"0", "1", "2", "3", "4", "5", "6", "7", "8", "9">>

IsSpace(c) == c = " "

\* str.lower() on one character
LowerChar(c) ==
    CASE c = "B" -> "b"
      [] c = "D" -> "d"
      [] c = "F" -> "f"
      [] c = "P" -> "p"
      [] OTHER -> c

Lower(s) == [i \in 1..Len(s) |-> LowerChar(s[i])]

EndsWith(s, suf) ==
    /\ Len(s) >= Len(suf)
    /\ SubSeq(s, Len(s) - Len(suf) + 1, Len(s)) = suf

DotPdf == <<".", "p", "d", "f">>

\* fname.lower().endswith('.pdf')
IsPdfName(s) == EndsWith(Lower(s), DotPdf)

\* str(counter)
RECURSIVE IntToStr(_)
IntToStr(n) ==
    IF n < 10 THEN <<Digits[n + 1]>>
    ELSE IntToStr(n \div 10) \o <<Digits[(n % 10) + 1]>>

(***************************************************************************)
(* werkzeug.utils.secure_filename                                          *)
(***************************************************************************)

\* filename.replace(os.sep, " ")
ReplaceSep(s) == [i \in 1..Len(s) |-> IF s[i] = "/" THEN " " ELSE s[i]]

\* str.split(): the maximal runs of non-whitespace characters, in order
RECURSIVE SplitWords(_, _, _)
SplitWords(s, i, cur) ==
    IF i > Len(s) THEN (IF cur = <<>> THEN <<>> ELSE <<cur>>)
    ELSE IF IsSpace(s[i])
         THEN (IF cur = <<>> THEN <<>> ELSE <<cur>>) \o SplitWords(s, i + 1, <<>>)
         ELSE SplitWords(s, i + 1, Append(cur, s[i]))

Split(s) == SplitWords(s, 1, <<>>)

\* sep.join(parts)
RECURSIVE Join(_, _)
Join(parts, sep) ==
    IF parts = <<>> THEN <<>>
    ELSE IF Len(parts) = 1 THEN parts[1]
    ELSE parts[1] \o sep \o Join(Tail(parts), sep)

\* [A-Za-z0-9_.-]
IsSafeChar(c) == c \notin {" ", "#", "/"}

\* _filename_ascii_strip_re.sub("", s)
RECURSIVE StripUnsafe(_)
StripUnsafe(s) ==
    IF s = <<>> THEN <<>>
    ELSE (IF IsSafeChar(Head(s)) THEN <<Head(s)>> ELSE <<>>) \o StripUnsafe(Tail(s))

\* s.strip("._")
RECURSIVE LStripDots(_)
LStripDots(s) ==
    IF s # <<>> /\ Head(s) \in {".", "_"} THEN LStripDots(Tail(s)) ELSE s

RECURSIVE RStripDots(_)
RStripDots(s) ==
    IF s # <<>> /\ s[Len(s)] \in {".", "_"}
    THEN RStripDots(SubSeq(s, 1, Len(s) - 1)) ELSE s

StripDots(s) == RStripDots(LStripDots(s))

secure_filename(s) ==
    StripDots(StripUnsafe(Join(Split(ReplaceSep(s)), <<"_">>)))

(***************************************************************************)
(* os.path.splitext                                                        *)
(***************************************************************************)

\* index of the last "." of s, 0 when there is none
LastDot(s) ==
    IF \E i \in 1..Len(s) : s[i] = "."
    THEN CHOOSE i \in 1..Len(s) : s[i] = "." /\ \A j \in (i + 1)..Len(s) : s[j] # "."
    ELSE 0

\* the extension starts at the last dot, unless only dots precede it
splitext(s) ==
    LET d == LastDot(s) IN
    IF d > 0 /\ \E i \in 1..(d - 1) : s[i] # "."
    THEN [base |-> SubSeq(s, 1, d - 1), ext |-> SubSeq(s, d, Len(s))]
    ELSE [base |-> s, ext |-> <<>>]

(***************************************************************************)
(* Store areas.  An area is a function from the names present in the       *)
(* directory to their content.  UPLOAD_FOLDER holds the modules and the    *)
(* two sub-directories made at start-up.                                   *)
(***************************************************************************)

\* a page object of a PDF; ok = FALSE when reading it raises
Page(id) == [ok |-> TRUE, text |-> <<id>>]
BadPage == [ok |-> FALSE, text |-> <<>>]

\* the content of a directory entry that is itself a directory
DirEntry == <<[ok |-> FALSE, text |-> <<<<"d", "i", "r">>>>]>>

CoversDir == <<"c", "o", "v", "e", "r", "s">>
ExportsDir == <<"e", "x", "p", "o", "r", "t", "s">>

\* os.path.exists(os.path.join(area, name))
Exists(area, name) == name \in DOMAIN area

\* open(path, 'wb') followed by the write of the whole content
WriteFile(area, name, content) == (name :> content) @@ area

(***************************************************************************)
(* list_modules                                                            *)
(***************************************************************************)

\* a < b as Python compares str: by code point, a proper prefix first
StrLess(a, b) ==
    \E k \in 1..(Len(b)) :
        /\ \A j \in 1..(k - 1) : j <= Len(a) /\ a[j] = b[j]
        /\ Len(a) >= k - 1
        /\ \/ Len(a) = k - 1
           \/ Len(a) >= k /\ Ord(a[k]) < Ord(b[k])

\* the names in descending order
RECURSIVE SortedDescending(_)
SortedDescending(S) ==
    IF S = {} THEN <<>>
    ELSE LET m == CHOOSE x \in S : \A y \in S \ {x} : StrLess(y, x)
         IN  <<m>> \o SortedDescending(S \ {m})

\* sorted(names)
RECURSIVE SortedSeq(_)
SortedSeq(S) ==
    IF S = {} THEN <<>>
    ELSE LET m == CHOOSE x \in S : \A y \in S \ {x} : StrLess(x, y)
         IN  <<m>> \o SortedSeq(S \ {m})

list_modules(area) == SelectSeq(SortedSeq(DOMAIN area), IsPdfName)

(***************************************************************************)
(* upload_files                                                            *)
(***************************************************************************)

\* no filter: every file of the request is taken
AcceptedAny(filename) == TRUE

\* line 198: the filter on the client's file name
Accepted(filename) == IsPdfName(filename)

\* line 206: f"{base}_{counter}{ext}"
Numbered(base, counter, ext) == base \o <<"_">> \o IntToStr(counter) \o ext

\* the candidate name is used as it is, taken or not
FirstCandidate(area, base, ext, unique, counter) == unique

\* lines 203-207: the while loop that looks for an unused name
RECURSIVE UniqueName(_, _, _, _, _)
UniqueName(area, base, ext, unique, counter) ==
    IF Exists(area, unique)
    THEN UniqueName(area, base, ext, Numbered(base, counter, ext), counter + 1)
    ELSE unique

\* lines 200-207 for one accepted file: the name it is stored under
StoredName(area, rawname) ==
    LET filename == secure_filename(rawname)
        parts == splitext(filename)
    IN  UniqueName(area, parts.base, parts.ext, filename, 1)

\* lines 197-209: the loop over the request's files
RECURSIVE UploadLoop(_, _, _)
UploadLoop(area, files, saved) ==
    IF files = <<>> THEN [area |-> area, saved |-> saved]
    ELSE LET f == Head(files) IN
         IF ~Accepted(f.filename)
         THEN UploadLoop(area, Tail(files), saved)
         ELSE LET unique == StoredName(area, f.filename)
              IN  UploadLoop(WriteFile(area, unique, f.content), Tail(files),
                             Append(saved, unique))

(***************************************************************************)
(* Inputs and bounds                                                       *)
(***************************************************************************)

\* most files uploaded to the modules area in one behaviour
MaxModules == 3

APdf == <<"a", ".", "p", "d", "f">>
A1Pdf == <<"a", "_", "1", ".", "p", "d", "f">>
A2Pdf == <<"a", "_", "2", ".", "p", "d", "f">>
BPdf == <<"B", ".", "P", "D", "F">>
NotesTxt == <<"n", "o", "t", "e", "s", ".", "t", "x", "t">>

HashPdf == <<"#", ".", "p", "d", "f">>
DotDotAPdf == <<".", ".", "/", "a", ".", "p", "d", "f">>

UploadNames == {APdf, A1Pdf, BPdf, NotesTxt, HashPdf, DotDotAPdf}

P1 == <<"p", "1">>
P2 == <<"p", "2">>
Q1 == <<"q", "1">>

\* a well-formed two-page PDF
GoodPdf == <<Page(P1), Page(P2)>>

\* a PDF whose second page object cannot be read
DamagedPdf == <<Page(Q1), BadPage>>

UploadContents == { GoodPdf, DamagedPdf }

UploadFile == [filename : UploadNames, content : UploadContents]

\* the requests of the store specification: one file, or two files of
\* different content
UploadRequests ==
    { <<f>> : f \in UploadFile }
        \cup { r \in { <<f, g>> : f, g \in UploadFile } : r[1].content # r[2].content }

NoName == <<>>

NoLast ==
    [op |-> "none", files |-> <<>>, saved |-> <<>>, all |-> <<>>,
     cover |-> NoName, names |-> <<>>, name |-> NoName, again |-> FALSE,
     present |-> {},
     title |-> <<>>, lines |-> <<>>]

NoThreads == <<>>

\* the modules area after start-up: the two sub-directories
EmptyStore == (CoversDir :> DirEntry) @@ (ExportsDir :> DirEntry)

Init ==
    /\ modules = EmptyStore
    /\ covers = <<>>
    /\ exports = <<>>
    /\ now = 0
    /\ calls = [cover |-> 0, export |-> 0]
    /\ last = NoLast
    /\ threads = NoThreads

\* number of files in the modules area (the two directories excluded)
ModuleCount(area) == Cardinality(DOMAIN area) - 2

\* POST /upload
upload_files(files) ==
    /\ ModuleCount(modules) + Cardinality({i \in 1..Len(files) : Accepted(files[i].filename)})
           <= MaxModules
    /\ \E r \in {UploadLoop(modules, files, <<>>)} :
        /\ modules' = r.area
        /\ last' = [NoLast EXCEPT !.op = "upload", !.files = files,
                                  !.saved = r.saved, !.all = list_modules(r.area)]
        /\ UNCHANGED <<covers, exports, now, calls, threads>>

\* GET /list_modules
list_modules_api ==
    /\ last' = [NoLast EXCEPT !.op = "list", !.all = list_modules(modules)]
    /\ UNCHANGED <<modules, covers, exports, now, calls, threads>>

Next ==
    \/ \E files \in UploadRequests : upload_files(files)
    \/ list_modules_api

Spec == Init /\ [][Next]_vars

(***************************************************************************)
(* Generated file names                                                    *)
(***************************************************************************)

\* the clock never shows more than MaxClock microseconds past the epoch
MaxClock == 1

\* s.rjust(w, "0"), as strftime pads its fields
RECURSIVE Pad(_, _)
Pad(s, w) == IF Len(s) >= w THEN s ELSE Pad(<<"0">> \o s, w)

\* the day the model's clock starts on, as %Y%m%d
EpochDay == <<"2", "0", "2", "4", "0", "3", "0", "1">>

\* datetime.utcnow().strftime('%Y%m%d%H%M%S%f'), t microseconds into the day
Timestamp(t) ==
    EpochDay
        \o Pad(IntToStr(((t \div 1000000) \div 3600) % 24), 2)
        \o Pad(IntToStr(((t \div 1000000) \div 60) % 60), 2)
        \o Pad(IntToStr((t \div 1000000) % 60), 2)
        \o Pad(IntToStr(t % 1000000), 6)

CoverName(t) == <<"c", "o", "v", "e", "r", "_">> \o Timestamp(t) \o DotPdf

ExportName(t) ==
    <<"p", "r", "o", "p", "o", "s", "a", "l", "_">> \o Timestamp(t) \o DotPdf

\* the system clock moves on between two readings, or does not
Tick ==
    /\ now < MaxClock
    /\ now' = now + 1
    /\ UNCHANGED <<modules, covers, exports, calls, last, threads>>

(***************************************************************************)
(* generate_cover_pdf: the title word wrap                                 *)
(***************************************************************************)

\* letter[0], in points
PageWidth == 612

TitleFontSize == 36

\* Helvetica-Bold advance widths, in 1/1000 of the font size
CharWidth(c) ==
    CASE c = " " -> 278
      [] c = "i" -> 278
      [] c = "a" -> 556
      [] c = "W" -> 944

RECURSIVE GlyphSum(_)
GlyphSum(s) == IF s = <<>> THEN 0 ELSE CharWidth(Head(s)) + GlyphSum(Tail(s))

\* c.stringWidth(s, 'Helvetica-Bold', title_font_size), in 1/1000 point
StringWidth(s) == GlyphSum(s) * TitleFontSize

\* width * 0.8, in 1/1000 point
MaxTitleWidth == PageWidth * 800

\* str.strip()
RECURSIVE LStrip(_)
LStrip(s) == IF s # <<>> /\ IsSpace(Head(s)) THEN LStrip(Tail(s)) ELSE s

RECURSIVE RStrip(_)
RStrip(s) ==
    IF s # <<>> /\ IsSpace(s[Len(s)]) THEN RStrip(SubSeq(s, 1, Len(s) - 1)) ELSE s

Strip(s) == RStrip(LStrip(s))

\* lines 123-129: the loop over the words of the title
RECURSIVE WrapLoop(_, _, _)
WrapLoop(words, lines, current_line) ==
    IF words = <<>> THEN [lines |-> lines, current_line |-> current_line]
    ELSE LET word == Head(words)
             test == Strip(current_line \o <<" ">> \o word)
         IN  IF StringWidth(test) < MaxTitleWidth
             THEN WrapLoop(Tail(words), lines, test)
             ELSE WrapLoop(Tail(words), Append(lines, current_line), word)

\* lines 121-131: the lines drawn for a title
WrapTitle(title) ==
    LET r == WrapLoop(Split(title), <<>>, <<>>)
    IN  IF r.current_line # <<>> THEN Append(r.lines, r.current_line) ELSE r.lines

\* the one page of a cover; of what is drawn the model keeps the title lines
CoverPage(lines) == [ok |-> TRUE, text |-> lines]

\* most cover generations and most exports in one behaviour
MaxCovers == 2
MaxExports == 2

\* POST /generate_cover
generate_cover(title) ==
    /\ calls.cover < MaxCovers
    /\ \E lines \in {WrapTitle(title)} :
        /\ covers' = WriteFile(covers, CoverName(now), <<CoverPage(lines)>>)
        /\ last' = [NoLast EXCEPT !.op = "cover", !.title = title,
                                  !.name = CoverName(now), !.lines = lines]
    /\ calls' = [calls EXCEPT !.cover = @ + 1]
    /\ UNCHANGED <<modules, exports, now, threads>>

(***************************************************************************)
(* export_pdf                                                              *)
(***************************************************************************)

\* the pages a reader yields before reading raises
RECURSIVE ReadablePages(_)
ReadablePages(content) ==
    IF content = <<>> \/ ~Head(content).ok THEN <<>>
    ELSE <<Head(content)>> \o ReadablePages(Tail(content))

\* the pages of a source are put before those already in the writer
MergeSourceFront(writer, content) == ReadablePages(content) \o writer

\* lines 234-239 and 243-248: try: add every page to the writer; except: log
MergeSource(writer, content) == writer \o ReadablePages(content)

\* the name is read whatever its extension
IsAnyFile(area, filename) == Exists(area, filename)

\* lines 231-233
HasCover(area, cover) == cover # NoName /\ Exists(area, cover)

\* line 242
IsMergeInput(area, filename) == Exists(area, filename) /\ IsPdfName(filename)

\* lines 240-248: the loop over the request's file names
RECURSIVE MergeModules(_, _, _)
MergeModules(writer, area, names) ==
    IF names = <<>> THEN writer
    ELSE MergeModules(IF IsMergeInput(area, Head(names))
                      THEN MergeSource(writer, area[Head(names)])
                      ELSE writer,
                      area, Tail(names))

\* lines 230-248: the pages of the writer when it is saved
ExportPages(coverArea, moduleArea, cover, names) ==
    MergeModules(IF HasCover(coverArea, cover)
                 THEN MergeSource(<<>>, coverArea[cover])
                 ELSE <<>>,
                 moduleArea, names)

\* POST /export
export_pdf(cover, names) ==
    /\ calls.export < MaxExports
    /\ exports' = WriteFile(exports, ExportName(now),
                            ExportPages(covers, modules, cover, names))
    /\ last' = [NoLast EXCEPT !.op = "export", !.cover = cover, !.names = names,
                              !.name = ExportName(now),
                              !.again = /\ last.op = "export"
                                        /\ last.cover = cover
                                        /\ last.names = names]
    /\ calls' = [calls EXCEPT !.export = @ + 1]
    /\ UNCHANGED <<modules, covers, now, threads>>

(***************************************************************************)
(* The export specification: covers and exports over a store that three    *)
(* uploads have filled.                                                    *)
(***************************************************************************)

R1 == <<"r", "1">>
OnePagePdf == <<Page(R1)>>

BarePdf == <<"p", "d", "f">>
MissingPdf == <<"m", "i", "s", "s", "i", "n", "g", ".", "p", "d", "f">>
MissingCover == <<"c", "o", "v", "e", "r", "_", "X", ".", "p", "d", "f">>

\* a.pdf (two pages), B.PDF (one page), a_1.pdf (damaged) and pdf (two pages)
ExportStore ==
    UploadLoop(EmptyStore,
               << [filename |-> APdf, content |-> GoodPdf],
                  [filename |-> BPdf, content |-> OnePagePdf],
                  [filename |-> APdf, content |-> DamagedPdf],
                  [filename |-> HashPdf, content |-> GoodPdf] >>,
               <<>>).area

ExportTitles == { <<"a", " ", "a">> }

\* the file lists of the export requests: none, an absent file, two modules
\* in either order, one module twice, a damaged module between two good ones,
\* a stored file whose name lacks the extension, an absent file before a module
ExportFileLists ==
    { <<>>,
      <<MissingPdf>>,
      <<APdf, BPdf>>,
      <<BPdf, APdf>>,
      <<APdf, APdf>>,
      <<APdf, A1Pdf, BPdf>>,
      <<BarePdf, BPdf>>,
      <<MissingPdf, APdf>> }

InitExport ==
    /\ modules = ExportStore
    /\ covers = <<>>
    /\ exports = <<>>
    /\ now = 0
    /\ calls = [cover |-> 0, export |-> 0]
    /\ last = NoLast
    /\ threads = NoThreads

NextExport ==
    \/ \E title \in ExportTitles : generate_cover(title)
    \/ \E cover \in DOMAIN covers \cup {NoName, MissingCover} :
          \E names \in ExportFileLists : export_pdf(cover, names)
    \/ Tick

SpecExport == InitExport /\ [][NextExport]_vars


(***************************************************************************)
(* Module store: properties of upload_files and list_modules (Spec)        *)
(***************************************************************************)

IsPdfFile(f) == IsPdfName(f.filename)

\* the name the store is to give sanitized name N: N itself when unused,
\* else base_<n>ext for the least n >= 1 whose name is unused
FirstFree(area, N) ==
    IF N \notin DOMAIN area THEN N
    ELSE LET p == splitext(N)
             n == CHOOSE k \in 1..(Cardinality(DOMAIN area) + 1) :
                     /\ Numbered(p.base, k, p.ext) \notin DOMAIN area
                     /\ \A j \in 1..(k - 1) : Numbered(p.base, j, p.ext) \in DOMAIN area
         IN  Numbered(p.base, n, p.ext)

\* the accepted files, taken one after the other from `area`, are stored
\* under `saved` and lead to `final`
RECURSIVE StoredInTurn(_, _, _, _)
StoredInTurn(area, acc, saved, final) ==
    IF acc = <<>> THEN area = final
    ELSE /\ saved[1] \notin DOMAIN area
         /\ saved[1] = FirstFree(area, secure_filename(acc[1].filename))
         /\ StoredInTurn((saved[1] :> acc[1].content) @@ area, Tail(acc), Tail(saved), final)

KeepsExisting ==
    \A n \in DOMAIN modules : n \in DOMAIN modules' /\ modules'[n] = modules[n]

C5_NonPdfSkipped ==
    [][last'.op = "upload" =>
          LET acc == SelectSeq(last'.files, IsPdfFile) IN
          /\ Len(last'.saved) = Len(acc)
          /\ Cardinality(DOMAIN modules' \ DOMAIN modules) = Len(acc)
          /\ \A i \in 1..Len(acc) :
                /\ last'.saved[i] \in DOMAIN modules' \ DOMAIN modules
                /\ modules'[last'.saved[i]] = acc[i].content
          /\ KeepsExisting
          /\ (acc = <<>> => modules' = modules)]_vars

\* notes.txt and a.pdf in one request: only a.pdf is stored
C5_Witness ==
    /\ last.op = "upload"
    /\ Len(last.files) = 2
    /\ last.files[1].filename = NotesTxt
    /\ last.files[2].filename = APdf
    /\ last.saved = <<APdf>>
    /\ ModuleCount(modules) = 1

\* C8: list_modules returns exactly the .pdf entries of the modules area, each
\* once, in ascending order, and changes no store area.
C8_ListSorted ==
    [][last'.op = "list" =>
          /\ \A i, j \in 1..Len(last'.all) : i < j => StrLess(last'.all[i], last'.all[j])
          /\ {last'.all[i] : i \in 1..Len(last'.all)}
                = {n \in DOMAIN modules : IsPdfName(n)}
          /\ UNCHANGED <<modules, covers, exports>>]_vars

\* three modules listed in code point order, whatever order they came in
C8_Witness ==
    /\ last.op = "list"
    /\ last.all = <<BPdf, APdf, A1Pdf>>

\* C10: every stored module name ends in .pdf, so every saved name is listed
\* in `all` and is a merge input of export.
C10_StoredNamesArePdf ==
    /\ \A n \in DOMAIN modules \ {CoversDir, ExportsDir} : IsPdfName(n)
    /\ last.op = "upload" =>
          \A i \in 1..Len(last.saved) :
              \E j \in 1..Len(last.all) : last.all[j] = last.saved[i]

(***************************************************************************)
(* Export merger and generated names: properties (SpecExport)              *)
(***************************************************************************)

Parseable(content) == \A i \in 1..Len(content) : content[i].ok

\* the cover the last export request names is present in the covers area
CoverPresent == last.cover # NoName /\ last.cover \in DOMAIN covers

\* name is a module the export reads: present and ending in .pdf
ModulePresent(name) == name \in DOMAIN modules /\ IsPdfName(name)

\* the file the last export wrote
Output == exports[last.name]

RECURSIVE AllPagesOf(_)
AllPagesOf(names) ==
    IF names = <<>> THEN <<>> ELSE modules[Head(names)] \o AllPagesOf(Tail(names))

RECURSIVE PageCountOf(_)
PageCountOf(names) ==
    IF names = <<>> THEN 0 ELSE Len(modules[Head(names)]) + PageCountOf(Tail(names))

WholeOrNothing(content) == IF Parseable(content) THEN content ELSE <<>>

RECURSIVE WholeSources(_)
WholeSources(names) ==
    IF names = <<>> THEN <<>>
    ELSE (IF ModulePresent(Head(names)) THEN WholeOrNothing(modules[Head(names)])
          ELSE <<>>) \o WholeSources(Tail(names))

\* C3: a source whose reading raises contributes no page at all, and every
\* other source contributes all of its pages, in the requested order.
C3_FailedSourceSkippedWhole ==
    last.op = "export" =>
        /\ last.name \in DOMAIN exports
        /\ Output = (IF CoverPresent THEN WholeOrNothing(covers[last.cover]) ELSE <<>>)
                        \o WholeSources(last.names)

\* the indices of the listed names that export reads
PresentIndices == {i \in 1..Len(last.names) : ModulePresent(last.names[i])}

NothingToMerge == ~CoverPresent /\ PresentIndices = {}

\* C4: absent sources (and names not ending in .pdf) are skipped and the export
\* still writes its output and returns its name; with no contributing source
\* the output has zero pages, also when the same request is made again.
C4_AbsentSourcesSkipped ==
    last.op = "export" =>
        /\ last.name \in DOMAIN exports
        /\ \A k \in 1..Len(Output) :
              \/ CoverPresent /\ \E j \in 1..Len(covers[last.cover]) :
                                    covers[last.cover][j] = Output[k]
              \/ \E i \in PresentIndices :
                    \E j \in 1..Len(modules[last.names[i]]) :
                        modules[last.names[i]][j] = Output[k]
        /\ Output = ExportPages(covers, modules,
                                IF CoverPresent THEN last.cover ELSE NoName,
                                SelectSeq(last.names, ModulePresent))
        /\ NothingToMerge => Output = <<>>
        /\ (last.again /\ NothingToMerge) => (calls.export >= 2 /\ Output = <<>>)

\* files = [missing.pdf] and no cover, exported for the second time
C4_Witness ==
    /\ last.op = "export"
    /\ last.again
    /\ last.cover = NoName
    /\ last.names = <<MissingPdf>>
    /\ calls.export = 2
    /\ last.name \in DOMAIN exports
    /\ Output = <<>>

\* C6: no two cover generations and no two exports return the same name: each
\* call wrote the name it returned, so each area holds one file per call.
C6_GeneratedNamesDistinct ==
    /\ Cardinality(DOMAIN covers) = calls.cover
    /\ Cardinality(DOMAIN exports) = calls.export

(***************************************************************************)
(* The wrap specification: covers generated for titles of up to            *)
(* MaxTitleWords words                                                     *)
(***************************************************************************)

\* a word wider than the threshold, one of half that width, a short one
WideWord == [i \in 1..15 |-> "W"]
HalfWord == [i \in 1..7 |-> "W"]
ShortWord == <<"a", "i">>

WrapWords == {WideWord, HalfWord, ShortWord}

MaxTitleWords == 3

WordLists == UNION { [1..n -> WrapWords] : n \in 0..MaxTitleWords }

\* the words joined by one space, or by two with a space before and after
WrapTitles ==
    { Join(ws, <<" ">>) : ws \in WordLists }
        \cup { <<" ">> \o Join(ws, <<" ", " ">>) \o <<" ">> : ws \in WordLists }

NextWrap ==
    \/ \E title \in WrapTitles : generate_cover(title)
    \/ Tick

SpecWrap == Init /\ [][NextWrap]_vars

\* the number of leading words of `words` that greedy breaking puts on one
\* line: as many as stay below the threshold, and one when the first is too wide
GreedyCount(words) ==
    LET fits == {m \in 1..Len(words) :
                    StringWidth(Join(SubSeq(words, 1, m), <<" ">>)) < MaxTitleWidth}
    IN  IF fits = {} THEN 1 ELSE CHOOSE m \in fits : \A k \in fits : k <= m

RECURSIVE GreedyLines(_)
GreedyLines(words) ==
    IF words = <<>> THEN <<>>
    ELSE LET m == GreedyCount(words)
         IN  <<Join(SubSeq(words, 1, m), <<" ">>)>>
                 \o GreedyLines(SubSeq(words, m + 1, Len(words)))

RECURSIVE WordsOfLines(_)
WordsOfLines(lines) ==
    IF lines = <<>> THEN <<>> ELSE Split(Head(lines)) \o WordsOfLines(Tail(lines))

\* C9: the drawn lines are the greedy breaking of the title's words: non-empty
\* groups of consecutive words, none lost, each line as long as fits (or one
\* word too wide to fit), and at least two lines for a title that reaches the
\* threshold.
C9_WrapIsGreedy ==
    last.op = "cover" =>
        LET words == Split(last.title) IN
        /\ \A i \in 1..Len(last.lines) : last.lines[i] # <<>>
        /\ WordsOfLines(last.lines) = words
        /\ last.lines = GreedyLines(words)
        /\ StringWidth(Join(words, <<" ">>)) >= MaxTitleWidth => Len(last.lines) >= 2

\* the same, for the titles whose first word fits on a line
GreedyWhenFirstWordFits ==
    (/\ last.op = "cover"
     /\ Split(last.title) # <<>>
     /\ StringWidth(Split(last.title)[1]) < MaxTitleWidth)
    => LET words == Split(last.title) IN
       /\ \A i \in 1..Len(last.lines) : last.lines[i] # <<>>
       /\ last.lines = GreedyLines(words)
       /\ StringWidth(Join(words, <<" ">>)) >= MaxTitleWidth => Len(last.lines) >= 2

(***************************************************************************)
(* The concurrent specification: two upload requests served by two         *)
(* threads.  A step is one access to the modules area together with the    *)
(* local work that follows it: an os.path.exists, the open of f.save, the   *)
(* write of one chunk, the listdir of the response.                        *)
(***************************************************************************)

Threads == {1, 2}

\* what a write leaves in the part of a file it skips over
ZeroChunk == [ok |-> FALSE, text |-> <<<<"0">>>>]

\* a file opened for appending writes at the end of the file
WriteAppend(content, offset, chunk) == Append(content, chunk)

\* a file opened for writing writes at its own position
WriteAt(content, offset, chunk) ==
    [k \in 1..(IF offset + 1 > Len(content) THEN offset + 1 ELSE Len(content)) |->
        IF k = offset + 1 THEN chunk
        ELSE IF k <= Len(content) THEN content[k]
        ELSE ZeroChunk]

IdleThread ==
    [pc |-> "idle", files |-> <<>>, i |-> 1, saved |-> <<>>, all |-> <<>>,
     base |-> NoName, ext |-> NoName, unique |-> NoName, counter |-> 1,
     offset |-> 0]

ConcNames == {APdf, DotDotAPdf, NotesTxt}

ConcContents == {GoodPdf, DamagedPdf, OnePagePdf}

ConcRequests == { <<f>> : f \in [filename : ConcNames, content : ConcContents] }

\* the modules area when the two requests arrive: empty, or holding a.pdf
ConcStores ==
    { EmptyStore,
      UploadLoop(EmptyStore, <<[filename |-> APdf, content |-> OnePagePdf]>>, <<>>).area }

InitConc ==
    /\ modules \in ConcStores
    /\ covers = <<>>
    /\ exports = <<>>
    /\ now = 0
    /\ calls = [cover |-> 0, export |-> 0]
    /\ last = NoLast
    /\ threads = [t \in Threads |-> IdleThread]

\* line 195: a thread takes a request
Begin(t, files) ==
    /\ threads[t].pc = "idle"
    /\ threads' = [threads EXCEPT ![t] = [@ EXCEPT !.pc = "loop", !.files = files]]
    /\ UNCHANGED <<modules, covers, exports, now, calls, last>>

\* lines 197-204: the next file of the request is skipped, or given its first
\* candidate name; after the last file the response is due
NextFile(t) ==
    LET th == threads[t] IN
    /\ th.pc = "loop"
    /\ \/ /\ th.i <= Len(th.files)
          /\ ~Accepted(th.files[th.i].filename)
          /\ threads' = [threads EXCEPT ![t] = [@ EXCEPT !.i = th.i + 1]]
       \/ /\ th.i <= Len(th.files)
          /\ Accepted(th.files[th.i].filename)
          /\ \E filename \in {secure_filename(th.files[th.i].filename)} :
                threads' = [threads EXCEPT ![t] =
                               [@ EXCEPT !.pc = "exists",
                                         !.base = splitext(filename).base,
                                         !.ext = splitext(filename).ext,
                                         !.unique = filename,
                                         !.counter = 1]]
       \/ /\ th.i > Len(th.files)
          /\ threads' = [threads EXCEPT ![t] = [@ EXCEPT !.pc = "respond"]]
    /\ UNCHANGED <<modules, covers, exports, now, calls, last>>

\* both threads have found the same name unused and neither has opened it
BothSawFree(ths) ==
    /\ \A t \in Threads : ths[t].pc = "open"
    /\ \A t, u \in Threads : ths[t].unique = ths[u].unique

\* lines 205-207: one test of the while loop
ExistsTest(t) ==
    LET th == threads[t] IN
    /\ th.pc = "exists"
    /\ \/ /\ Exists(modules, th.unique)
          /\ threads' = [threads EXCEPT ![t] =
                            [@ EXCEPT !.unique = Numbered(th.base, th.counter, th.ext),
                                      !.counter = th.counter + 1]]
          /\ UNCHANGED last
       \/ /\ ~Exists(modules, th.unique)
          /\ threads' = [threads EXCEPT ![t] = [@ EXCEPT !.pc = "open"]]
          /\ last' = IF BothSawFree(threads')
                     THEN [NoLast EXCEPT !.op = "race", !.name = th.unique,
                                         !.present = DOMAIN modules]
                     ELSE last
    /\ UNCHANGED <<modules, covers, exports, now, calls>>

\* line 208, f.save: open(dst, "wb") creates the file or truncates it
OpenFile(t) ==
    LET th == threads[t] IN
    /\ th.pc = "open"
    /\ modules' = WriteFile(modules, th.unique, <<>>)
    /\ threads' = [threads EXCEPT ![t] = [@ EXCEPT !.pc = "write", !.offset = 0]]
    /\ UNCHANGED <<covers, exports, now, calls, last>>

\* line 208, f.save: copyfileobj writes the next chunk; after the last one the
\* file is closed and line 209 records the name
WriteChunk(t) ==
    LET th == threads[t]
        content == th.files[th.i].content
    IN
    /\ th.pc = "write"
    /\ th.offset < Len(content)
    /\ modules' = [modules EXCEPT ![th.unique] =
                      WriteAt(@, th.offset, content[th.offset + 1])]
    /\ threads' = [threads EXCEPT ![t] =
                      IF th.offset + 1 = Len(content)
                      THEN [@ EXCEPT !.pc = "loop", !.offset = th.offset + 1,
                                     !.saved = Append(th.saved, th.unique),
                                     !.i = th.i + 1]
                      ELSE [@ EXCEPT !.offset = th.offset + 1]]
    /\ UNCHANGED <<covers, exports, now, calls, last>>

\* line 210: the response lists the modules area
Respond(t) ==
    /\ threads[t].pc = "respond"
    /\ threads' = [threads EXCEPT ![t] =
                      [@ EXCEPT !.pc = "done", !.all = list_modules(modules)]]
    /\ UNCHANGED <<modules, covers, exports, now, calls, last>>

NextConc ==
    \E t \in Threads :
        \/ \E files \in ConcRequests : Begin(t, files)
        \/ NextFile(t)
        \/ ExistsTest(t)
        \/ OpenFile(t)
        \/ WriteChunk(t)
        \/ Respond(t)

SpecConc == InitConc /\ [][NextConc]_vars

\* both requests were answered after both had found the same name unused
RaceOver == last.op = "race" /\ \A t \in Threads : threads[t].pc = "done"

====
